---- MODULE Spec2Model ----
(***************************************************************************)
(* CPM - C/C++ package manager (src/cpm.go, V0.6.2).                       *)
(*                                                                         *)
(* The program is single threaded: main -> fetch_all (recursive) ->        *)
(* build (recursive).  The model keeps the Go call stack explicitly        *)
(* (variable stack), the registry all_packs, the in-progress list          *)
(* inprocess, the process working directory and the part of the            *)
(* filesystem under the development tree root the program looks at.        *)
(* Every external command (git clone / switch / pull, build and post       *)
(* commands) is one step whose exit status is chosen by the environment.   *)
(***************************************************************************)
EXTENDS Integers, Sequences, FiniteSets, TLC

\* ------------------------------------------------------------------ bounds
\* longest descriptor "depends" list drawn by the graph family of Init
MaxDepends == 2
\* largest number of dependency edges in one graph of the graph family
MaxEdges == 3
\* largest registry explored: no package is added to a registry of this size
MaxPacks == 5
\* number of consecutive runs of the program on the same development tree
MaxRuns == 2

\* ------------------------------------------------------------- name spaces
\* package directory names under the development tree root
Names == {"A", "B", "C"}
\* header module names a package may offer below include/
ModNames == {"m"}
LinkNames == Names \cup ModNames
\* value of a JSON key that the descriptor does not contain
Unset == "<unset>"
descriptor_name == "cpm.json"

\* A path below the development tree root, as the sequence of its components
\* (<<>> is the root itself).
Paths ==
  {<<"lib">>} \cup {<<p>> : p \in Names}
  \cup {<<p, x>> : p \in Names, x \in {".git", descriptor_name, "lib", "include"}}
  \cup {<<p, "include", n>> : p \in Names, n \in LinkNames}

NoEnt == <<"<ENOENT>">>
ELoop == <<"<ELOOP>">>

None == [k |-> "none", t |-> <<>>]
Dir  == [k |-> "dir",  t |-> <<>>]
File == [k |-> "file", t |-> <<>>]
Link(target) == [k |-> "link", t |-> target]

\* filepath.Join(dir, name)
Join(dir, name) == Append(dir, name)

\* Entry found by lstat(2): the entry itself, a link is not followed.
Lstat(f, path) == IF path \in DOMAIN f THEN f[path] ELSE None

\* os.Stat: the path of the entity that path denotes after following symbolic
\* links, NoEnt when a component is missing, ELoop when the links loop.
RECURSIVE Follow(_, _, _)
Follow(f, path, fuel) ==
  IF Lstat(f, path).k = "none" THEN NoEnt
  ELSE IF Lstat(f, path).k # "link" THEN path
  ELSE IF fuel = 0 THEN ELoop
  ELSE Follow(f, f[path].t, fuel - 1)

Stat(f, path) == Follow(f, path, Cardinality(DOMAIN f))

IsNotExist(st) == st = NoEnt
IsDir(f, path) == Stat(f, path) \notin {NoEnt, ELoop} /\ f[Stat(f, path)].k = "dir"

\* os.Chdir: the new working directory, unchanged when the call fails.
Chdir(f, cwd, path) == IF IsDir(f, path) THEN Stat(f, path) ELSE cwd
ChdirFails(f, path) == ~IsDir(f, path)

\* os.Mkdir: creates the directory unless something is there (error ignored
\* by the callers that use this operator).
Mkdir(f, path) ==
  IF path \in DOMAIN f /\ f[path].k = "none" THEN [f EXCEPT ![path] = Dir] ELSE f

\* os.SameFile on the results of two os.Stat calls (nil when the call failed)
SameFile(st1, st2) == st1 \notin {NoEnt, ELoop} /\ st2 \notin {NoEnt, ELoop} /\ st1 = st2

\* ---------------------------------------------------------------- Symlink
\* a Symlink that returns without looking
SymlinkSkip(f, cwd, target, link) == [fs |-> f, err |-> ""]
\* a Symlink that puts the link in place whatever is there
SymlinkReplace(f, cwd, target, link) ==
  [fs |-> [q \in DOMAIN f |-> IF q = Join(cwd, link) THEN Link(target) ELSE f[q]], err |-> ""]

\* Symlink(target, link) with the working directory cwd: the filesystem
\* afterwards and the fatal error raised ("" when the call returns).
Symlink(f, cwd, target, link) ==
  LET lp == Join(cwd, link) IN
  IF IsNotExist(Stat(f, lp))
  THEN \* os.Symlink fails with EEXIST when an entry (a dangling link) is there
       IF lp \in DOMAIN f /\ f[lp].k = "none"
       THEN [fs |-> [f EXCEPT ![lp] = Link(target)], err |-> ""]
       ELSE [fs |-> f, err |-> "cannot create symlink"]
  ELSE IF Lstat(f, lp).k # "link"
       THEN [fs |-> f, err |-> "already exists and is not a symlink"]
       ELSE IF ~SameFile(Stat(f, lp), Stat(f, target))
            THEN [fs |-> f, err |-> "already exists and is not a symlink"]
            ELSE [fs |-> f, err |-> ""]

\* The Symlink calls of the namespace loop of fetch_all, in program order:
\* one <<target, link>> pair per module of an edge, or one for the whole
\* package when the edge lists no module.
RECURSIVE ModuleJobs(_, _)
ModuleJobs(dep, j) ==
  IF j > Len(dep.Modules) THEN <<>>
  ELSE <<[target |-> <<dep.Name, "include", dep.Modules[j]>>, link |-> dep.Modules[j]]>>
       \o ModuleJobs(dep, j + 1)

RECURSIVE LinkJobs(_, _)
LinkJobs(deps, i) ==
  IF i > Len(deps) THEN <<>>
  ELSE (IF Len(deps[i].Modules) # 0
        THEN ModuleJobs(deps[i], 1)
        ELSE <<[target |-> <<deps[i].Name, "include", deps[i].Name>>, link |-> deps[i].Name]>>)
       \o LinkJobs(deps, i + 1)

\* ---------------------------------------------------------- exec_commands
\* A string is the sequence of its characters.
Sp == <<" ">>
any == <<"a", "n", "y">>
linux == <<"l", "i", "n", "u", "x">>
windows == <<"w", "i", "n", "d", "o", "w", "s">>

\* strings.Fields: the maximal runs of non-space characters of s, in order.
RECURSIVE FieldsFrom(_, _, _)
FieldsFrom(s, i, word) ==
  IF i > Len(s) THEN (IF word = <<>> THEN <<>> ELSE <<word>>)
  ELSE IF s[i] = " "
       THEN (IF word = <<>> THEN <<>> ELSE <<word>>) \o FieldsFrom(s, i + 1, <<>>)
       ELSE FieldsFrom(s, i + 1, Append(word, s[i]))

Fields(s) == FieldsFrom(s, 1, <<>>)

\* Whether the token an_os of a pattern selects the command on goos.
OsMatchesAll(an_os, goos) == TRUE
OsMatches(an_os, goos) == an_os = any \/ an_os = goos

\* The Run calls one command makes: one per matching token of its pattern.
RunsOfCommand(commands, i, goos) ==
  LET c == commands[i]
      oses == Fields(IF c.Os = <<>> THEN any ELSE c.Os)
      hit == SelectSeq(oses, LAMBDA t : OsMatches(t, goos))
  IN [j \in 1..Len(hit) |-> [ci |-> i, Cmd |-> c.Cmd, an_os |-> hit[j]]]

\* The Run calls of exec_commands(commands) when every one exits with 0.
RECURSIVE RunsFrom(_, _, _)
RunsFrom(commands, i, goos) ==
  IF i > Len(commands) THEN <<>>
  ELSE RunsOfCommand(commands, i, goos) \o RunsFrom(commands, i + 1, goos)

Applicable(commands, goos) == RunsFrom(commands, 1, goos)

\* ---------------------------------------------------------------- git_clone
\* URI chosen for cloning p ("" when no location is set)
CloneUriPreferredOnly(p, proto) == IF proto = "https" THEN p.Https ELSE p.Git
CloneUri(p, proto) ==
  IF proto = "https"
  THEN (IF p.Https = "" THEN p.Git ELSE p.Https)
  ELSE (IF p.Git = "" THEN p.Https ELSE p.Git)

\* ------------------------------------------------------------------- state
VARIABLES
  repo,       \* input: per directory name, the descriptor and headers of its repository
  flag,       \* input: the command line (F, f, l, b, proto, uri, root_name)
  GOOS,       \* input: runtime.GOOS
  fs,         \* the filesystem below devroot: path -> entry
  cwd,        \* working directory of the process
  all_packs,  \* the registry
  inprocess,  \* names of the packages being built
  stack,      \* the Go call stack, the running function last
  status,     \* "run", "done" (main returned) or "fatal" (log.Fatal)
  err,        \* message of the fatal error
  log,        \* history: the external commands run so far
  calls,      \* history: the fetch_all and build calls entered so far
  run,        \* history: number of the current run of the program
  prev        \* history: the filesystem and outcome at the start and end of each earlier run

inputs == <<repo, flag, GOOS, run, prev>>
history == <<run, prev>>
vars == <<repo, flag, GOOS, fs, cwd, all_packs, inprocess, stack, status, err, log, calls, run, prev>>

\* new(PacUnit)
NewPacUnit ==
  [Name |-> "", Git |-> "", Https |-> "", Branch |-> "", Build |-> <<>>,
   Depends |-> <<>>, dnil |-> TRUE, built |-> FALSE]

\* json.Unmarshal(data, p) into an existing PacUnit: keys of the descriptor
\* overwrite the fields, fields without a key keep their value; "pack" is
\* unexported and never decoded.
Unmarshal(p, d) ==
  [p EXCEPT
     !.Name = IF d.Name = Unset THEN @ ELSE d.Name,
     !.Git = IF d.Git = Unset THEN @ ELSE d.Git,
     !.Https = IF d.Https = Unset THEN @ ELSE d.Https,
     !.Branch = IF d.Branch = Unset THEN @ ELSE d.Branch,
     !.Build = d.Build,
     !.Depends = IF d.hasDepends
                 THEN [i \in 1..Len(d.Depends) |->
                         [Name |-> d.Depends[i].Name, Git |-> d.Depends[i].Git,
                          Https |-> d.Depends[i].Https, Branch |-> d.Depends[i].Branch,
                          Modules |-> d.Depends[i].Modules,
                          FetchOnly |-> d.Depends[i].FetchOnly,
                          Post |-> d.Depends[i].Post,
                          pack |-> IF i <= Len(p.Depends) THEN p.Depends[i].pack ELSE 0]]
                 ELSE @,
     !.dnil = IF d.hasDepends THEN FALSE ELSE @]

\* strings.EqualFold on the names of the model (no two differ by case only)
EqualFold(a, b) == a = b

\* What "git clone" leaves in directory name: the repository marker, the
\* descriptor when the repository has one, and its header folders.
Checkout(rp, f, name) ==
  LET want == {<<name>>, <<name, ".git">>}
              \cup (IF rp[name].hasDesc THEN {<<name, descriptor_name>>} ELSE {})
              \cup (IF rp[name].hdr # {} THEN {<<name, "include">>} ELSE {})
              \cup {<<name, "include", h>> : h \in rp[name].hdr}
  IN [q \in DOMAIN f |->
        IF q \in want /\ f[q].k = "none"
        THEN (IF q = <<name, descriptor_name>> THEN File ELSE Dir)
        ELSE f[q]]

CloneInto(f, name) == Checkout(repo, f, name)

Frame(fn, pc, p) == [fn |-> fn, pc |-> pc, p |-> p, i |-> 1, k |-> 1, d |-> 0, cwd |-> <<>>]
Top == stack[Len(stack)]
At(fn, pc) == status = "run" /\ Len(stack) > 0 /\ Top.fn = fn /\ Top.pc = pc
SetTop(fr) == [stack EXCEPT ![Len(stack)] = fr]
Pop == SubSeq(stack, 1, Len(stack) - 1)
Call(fr, callee) == Append(SetTop(fr), callee)

\* log.Fatal: the process exits where it stands
Fatal(msg) == status' = "fatal" /\ err' = msg /\ stack' = stack
Continue(newstack) == stack' = newstack /\ UNCHANGED <<status, err>>

\* One Run call as it is recorded in the history
Ran(op, pk, name, cmd, branch, force, ci, edge, ok) ==
  [op |-> op, pk |-> pk, name |-> name, cmd |-> cmd, branch |-> branch, force |-> force,
   ci |-> ci, edge |-> edge, cwd |-> cwd, ok |-> ok, run |-> run]

\* os.ReadFile succeeds on a regular file
Readable(f, path) == Stat(f, path) \notin {NoEnt, ELoop} /\ f[Stat(f, path)].k = "file"
\* the decoded content of the descriptor file at path
Content(f, path) == repo[Stat(f, path)[1]].desc

\* -------------------------------------------------------------------- main
\* main, lines 129-181: flag checks, the shared lib folder, the root entry
MainStart ==
  /\ At("main", "start")
  /\ IF flag.proto \notin {"git", "https"}
     THEN Fatal(<<"Unknown protocol">>) /\ UNCHANGED <<fs, all_packs>>
     ELSE IF flag.uri # "" /\ flag.l
     THEN Fatal(<<"Local mode only. Cannot fetch root package">>) /\ UNCHANGED <<fs, all_packs>>
     ELSE LET root0 == [NewPacUnit EXCEPT !.Branch = flag.b]
              root == IF flag.uri # ""
                      THEN [root0 EXCEPT !.Git = flag.uri, !.Name = flag.root_name]
                      ELSE root0
          IN /\ fs' = Mkdir(fs, <<"lib">>)
             /\ all_packs' = <<root>>
             /\ Continue(IF flag.uri # ""
                         THEN Call([Top EXCEPT !.pc = "load"], Frame("fetch", "stat", 1))
                         ELSE SetTop([Top EXCEPT !.pc = "load"]))
  /\ UNCHANGED <<inputs, cwd, inprocess, log, calls>>

\* main, lines 183-201: load the root descriptor, restore the root name,
\* change into the root package and call fetch_all(root)
MainLoad ==
  /\ At("main", "load")
  /\ LET rd == <<flag.root_name, descriptor_name>>
         root1 == Unmarshal(all_packs[1], Content(fs, rd))
         root2 == IF flag.root_name # "" /\ ~EqualFold(root1.Name, flag.root_name)
                  THEN [root1 EXCEPT !.Name = flag.root_name]
                  ELSE root1
     IN IF ~Readable(fs, rd)
        THEN Fatal(<<"cannot open root descriptor">>) /\ UNCHANGED <<all_packs, cwd>>
        ELSE /\ all_packs' = [all_packs EXCEPT ![1] = root2]
             /\ cwd' = Chdir(fs, cwd, <<root2.Name>>)
             /\ Continue(Call([Top EXCEPT !.pc = "build"], Frame("fetch_all", "enter", 1)))
  /\ UNCHANGED <<inputs, fs, inprocess, log, calls>>

\* main, line 203: *fetch_flag
FetchOnlyModeNever == FALSE
FetchOnlyMode == flag.f

\* main, lines 203-211: the build phase unless -f
MainBuild ==
  /\ At("main", "build")
  /\ IF ~FetchOnlyMode
     THEN /\ inprocess' = <<>>
          /\ all_packs' = IF flag.root_name # "" /\ ~EqualFold(all_packs[1].Name, flag.root_name)
                          THEN [all_packs EXCEPT ![1].Name = flag.root_name]
                          ELSE all_packs
          /\ Continue(Call([Top EXCEPT !.pc = "finish"], Frame("build", "enter", 1)))
     ELSE /\ Continue(SetTop([Top EXCEPT !.pc = "finish"]))
          /\ UNCHANGED <<inprocess, all_packs>>
  /\ UNCHANGED <<inputs, fs, cwd, log, calls>>

\* main, line 213: normal end of the run
MainFinish ==
  /\ At("main", "finish")
  /\ status' = "done"
  /\ stack' = <<>>
  /\ UNCHANGED <<inputs, fs, cwd, all_packs, inprocess, err, log, calls>>

\* ------------------------------------------------------------------- fetch
\* fetch, lines 220 and 227: the package directory is missing or holds no
\* repository
NeedsCloneWhenAbsent(f, pacdir) == IsNotExist(Stat(f, pacdir))
NeedsClone(f, pacdir) ==
  IsNotExist(Stat(f, pacdir)) \/ IsNotExist(Stat(f, Join(pacdir, ".git")))

\* fetch, lines 217-235 with the URI choice of git_clone (lines 441-464):
\* decide between clone and pull
\* git_pull, line 486: the switch comes first when a branch is given
SwitchesFirstNever(branch) == FALSE
SwitchesFirst(branch) == Len(branch) # 0

FetchStat ==
  /\ At("fetch", "stat")
  /\ LET p == all_packs[Top.p]
         pacdir == <<p.Name>>
         absent == IsNotExist(Stat(fs, pacdir))
     IN IF NeedsClone(fs, pacdir)
        THEN /\ fs' = IF absent THEN Mkdir(fs, pacdir) ELSE fs
             /\ cwd' = cwd
             /\ IF CloneUri(p, flag.proto) = ""
                THEN Fatal(<<"Missing package location.">>)
                ELSE Continue(SetTop([Top EXCEPT !.pc = "clone"]))
        ELSE /\ fs' = fs
             /\ cwd' = Chdir(fs, cwd, pacdir)
             /\ Continue(SetTop([Top EXCEPT !.pc = IF SwitchesFirst(p.Branch) THEN "switch" ELSE "pull"]))
  /\ UNCHANGED <<inputs, all_packs, inprocess, log, calls>>

\* git_clone, lines 466-478, then os.Chdir(pacdir) of fetch
GitClone ==
  /\ At("fetch", "clone")
  /\ \E ok \in BOOLEAN :
       LET p == all_packs[Top.p] IN
       /\ log' = Append(log, Ran("clone", Top.p, p.Name, CloneUri(p, flag.proto), p.Branch,
                                 FALSE, 0, 0, ok))
       /\ IF ok
          THEN /\ fs' = CloneInto(fs, p.Name)
               /\ cwd' = Chdir(fs', cwd, <<p.Name>>)
               /\ Continue(Pop)
          ELSE Fatal(<<"Cloning failed">>) /\ UNCHANGED <<fs, cwd>>
  /\ UNCHANGED <<inputs, all_packs, inprocess, calls>>

\* git_switch, lines 497-509
GitSwitch ==
  /\ At("fetch", "switch")
  /\ \E ok \in BOOLEAN :
       LET p == all_packs[Top.p] IN
       /\ log' = Append(log, Ran("switch", Top.p, p.Name, "", p.Branch, flag.F, 0, 0, ok))
       /\ IF ok
          THEN Continue(SetTop([Top EXCEPT !.pc = "pull"]))
          ELSE Fatal(<<"Switching to branch failed">>)
  /\ UNCHANGED <<inputs, fs, cwd, all_packs, inprocess, calls>>

\* git_pull, lines 489-494
GitPull ==
  /\ At("fetch", "pull")
  /\ \E ok \in BOOLEAN :
       LET p == all_packs[Top.p] IN
       /\ log' = Append(log, Ran("pull", Top.p, p.Name, "", p.Branch, FALSE, 0, 0, ok))
       /\ IF ok
          THEN Continue(Pop)
          ELSE Fatal(<<"Pulling failed">>)
  /\ UNCHANGED <<inputs, fs, cwd, all_packs, inprocess, calls>>

\* --------------------------------------------------------------- fetch_all
\* fetch_all, line 241: *local_flag
LocalOnlyNever == FALSE
LocalOnly == flag.l

\* fetch_all, lines 240-247: fetch the package, or only enter it with -l
FetchAllEnter ==
  /\ At("fetch_all", "enter")
  /\ LET p == all_packs[Top.p]
         pacdir == <<p.Name>>
     IN /\ calls' = Append(calls, [fn |-> "fetch_all", p |-> Top.p, name |-> p.Name,
                                   branch |-> p.Branch, run |-> run])
        /\ IF ~LocalOnly
           THEN /\ Continue(Call([Top EXCEPT !.pc = "setup"], Frame("fetch", "stat", Top.p)))
                /\ cwd' = cwd
           ELSE IF ChdirFails(fs, pacdir)
                THEN Fatal(<<"Fatal - local-only mode and directory does not exist">>)
                     /\ cwd' = cwd
                ELSE /\ Continue(SetTop([Top EXCEPT !.pc = "setup"]))
                     /\ cwd' = Chdir(fs, cwd, pacdir)
  /\ UNCHANGED <<inputs, fs, all_packs, inprocess, log>>

\* fetch_all, lines 248-266: remember the directory, link lib, load the
\* descriptor of the working directory into the package
FetchAllSetup ==
  /\ At("fetch_all", "setup")
  /\ LET p == all_packs[Top.p]
         r == Symlink(fs, cwd, <<"lib">>, "lib")
         dpath == Join(cwd, descriptor_name)
         p1 == IF Readable(r.fs, dpath) THEN Unmarshal(p, Content(r.fs, dpath)) ELSE p
     IN /\ fs' = r.fs
        /\ IF r.err # ""
           THEN Fatal(<<r.err>>) /\ UNCHANGED all_packs
           ELSE /\ all_packs' = [all_packs EXCEPT ![Top.p] = p1]
                /\ Continue(IF p1.dnil
                            THEN Pop
                            ELSE SetTop([Top EXCEPT !.pc = "deps", !.i = 1, !.cwd = cwd]))
  /\ UNCHANGED <<inputs, cwd, inprocess, log, calls>>

BranchNameAsIs(b) == b
\* the sentinel printed for an unspecified branch
BranchName(b) == IF Len(b) = 0 THEN "HEAD" ELSE b

\* index of the first registry entry called name, 0 when there is none
Find(packs, name) ==
  LET hits == {j \in 1..Len(packs) : packs[j].Name = name} IN
  IF hits = {} THEN 0 ELSE CHOOSE j \in hits : \A h \in hits : j <= h

\* fetch_all, lines 268-304, one iteration of the loop over p.Depends: bind
\* the edge to the registered package of that name, or register a new
\* package and fetch it
FetchAllDep ==
  /\ At("fetch_all", "deps")
  /\ Top.i <= Len(all_packs[Top.p].Depends)
  /\ Find(all_packs, all_packs[Top.p].Depends[Top.i].Name) = 0 => Len(all_packs) < MaxPacks
  /\ LET e == all_packs[Top.p].Depends[Top.i]
         idx == Find(all_packs, e.Name)
         d == [NewPacUnit EXCEPT !.Name = e.Name, !.Git = e.Git, !.Https = e.Https,
                                 !.Branch = e.Branch]
     IN IF idx # 0
        THEN IF all_packs[idx].Branch # e.Branch
             THEN /\ Fatal(<<"cannot switch branch", all_packs[idx].Name,
                             BranchName(all_packs[idx].Branch), BranchName(e.Branch)>>)
                  /\ UNCHANGED all_packs
             ELSE /\ all_packs' = [all_packs EXCEPT ![Top.p].Depends[Top.i].pack = idx]
                  /\ Continue(SetTop([Top EXCEPT !.i = @ + 1]))
        ELSE /\ all_packs' = Append(all_packs, d)
             /\ Continue(Call([Top EXCEPT !.pc = "bind", !.d = Len(all_packs) + 1],
                              Frame("fetch_all", "enter", Len(all_packs) + 1)))
  /\ UNCHANGED <<inputs, fs, cwd, inprocess, log, calls>>

\* fetch_all, line 300: fetch_all(d) returned
FetchAllBind ==
  /\ At("fetch_all", "bind")
  /\ all_packs' = [all_packs EXCEPT ![Top.p].Depends[Top.i].pack = Top.d]
  /\ Continue(SetTop([Top EXCEPT !.pc = "deps", !.i = @ + 1]))
  /\ UNCHANGED <<inputs, fs, cwd, inprocess, log, calls>>

\* fetch_all, line 306: the include directory of the package, below the
\* directory saved at line 248 and not below the current one
IncDirOfCurrent(saved, current) == Join(current, "include")
IncDir(saved, current) == Join(saved, "include")

\* fetch_all, lines 306-310: enter include, creating it when that fails
FetchAllInclude ==
  /\ At("fetch_all", "deps")
  /\ Top.i > Len(all_packs[Top.p].Depends)
  /\ LET incdir == IncDir(Top.cwd, cwd)
         f1 == IF ChdirFails(fs, incdir) THEN Mkdir(fs, incdir) ELSE fs
     IN /\ fs' = f1
        /\ cwd' = Chdir(f1, cwd, incdir)
        /\ Continue(SetTop([Top EXCEPT !.pc = "links", !.k = 1]))
  /\ UNCHANGED <<inputs, all_packs, inprocess, log, calls>>

\* fetch_all, lines 313-326: one Symlink call of the loops over p.Depends and
\* dep.Modules; fetch_all returns after the last one
FetchAllLink ==
  /\ At("fetch_all", "links")
  /\ LET jobs == LinkJobs(all_packs[Top.p].Depends, 1)
         r == Symlink(fs, cwd, jobs[Top.k].target, jobs[Top.k].link)
     IN IF Top.k <= Len(jobs)
        THEN /\ fs' = r.fs
             /\ IF r.err # "" THEN Fatal(<<r.err>>) ELSE Continue(SetTop([Top EXCEPT !.k = @ + 1]))
        ELSE /\ fs' = fs
             /\ Continue(Pop)
  /\ UNCHANGED <<inputs, cwd, all_packs, inprocess, log, calls>>

\* ------------------------------------------------------------------- build
\* build, line 332: the package has been built already
AlreadyBuiltNever(p) == FALSE
AlreadyBuilt(p) == p.built

\* build, lines 336-340: the name of the package is in the in-progress list
OnStackNever(name) == FALSE
OnStack(name) == \E w \in 1..Len(inprocess) : inprocess[w] = name

\* build, line 353: the edge is not followed by the build
SkipsBuildNever(d) == FALSE
SkipsBuildAlways(d) == TRUE
SkipsBuild(d) == d.FetchOnly

\* build, lines 332-347: memo check, cycle check, push, enter the package
BuildEnter ==
  /\ At("build", "enter")
  /\ IF Top.p = 0
     THEN Fatal(<<"panic: nil pointer dereference">>) /\ UNCHANGED <<inprocess, cwd, calls>>
     ELSE LET p == all_packs[Top.p] IN
          /\ calls' = Append(calls, [fn |-> "build", p |-> Top.p, name |-> p.Name,
                                        branch |-> p.Branch, run |-> run])
          /\ IF AlreadyBuilt(p)
             THEN Continue(Pop) /\ UNCHANGED <<inprocess, cwd>>
             ELSE IF OnStack(p.Name)
             THEN Fatal(<<"depends on itself", p.Name, inprocess>>) /\ UNCHANGED <<inprocess, cwd>>
             ELSE /\ inprocess' = Append(inprocess, p.Name)
                  /\ cwd' = Chdir(fs, cwd, <<p.Name>>)
                  /\ Continue(SetTop([Top EXCEPT !.pc = IF p.dnil THEN "self" ELSE "deps",
                                                 !.cwd = cwd', !.i = 1, !.k = 1]))
  /\ UNCHANGED <<inputs, fs, all_packs, log>>

\* build, lines 350-367, one iteration of the loop over p.Depends up to the
\* call build(d.pack); after the last edge, os.Chdir(cwd)
BuildDeps ==
  /\ At("build", "deps")
  /\ LET p == all_packs[Top.p] IN
     IF Top.i <= Len(p.Depends)
     THEN /\ cwd' = cwd
          /\ IF ~SkipsBuild(p.Depends[Top.i])
             THEN Continue(Call([Top EXCEPT !.pc = "post", !.k = 1],
                                Frame("build", "enter", p.Depends[Top.i].pack)))
             ELSE Continue(SetTop([Top EXCEPT !.i = @ + 1]))
     ELSE /\ cwd' = Chdir(fs, cwd, Top.cwd)
          /\ Continue(SetTop([Top EXCEPT !.pc = "self", !.k = 1]))
  /\ UNCHANGED <<inputs, fs, all_packs, inprocess, log, calls>>

\* exec_commands, line 402: Run did not return 0 (ok: the command started
\* and exited with status 0)
NonZeroNever(ok) == FALSE
NonZero(ok) == ~ok

\* build, lines 355-361: exec_commands(d.Post), one Run call per step
BuildPost ==
  /\ At("build", "post")
  /\ LET p == all_packs[Top.p]
         runs == Applicable(p.Depends[Top.i].Post, GOOS)
     IN IF Top.k <= Len(runs)
        THEN \E ok \in BOOLEAN :
               /\ log' = Append(log, Ran("post", Top.p, p.Name, runs[Top.k].Cmd, "", FALSE,
                                         runs[Top.k].ci, Top.i, ok))
               /\ IF NonZero(ok)
                  THEN Fatal(<<"Build aborted">>)
                  ELSE Continue(SetTop([Top EXCEPT !.k = @ + 1]))
        ELSE /\ log' = log
             /\ Continue(SetTop([Top EXCEPT !.pc = "deps", !.i = @ + 1]))
  /\ UNCHANGED <<inputs, fs, cwd, all_packs, inprocess, calls>>

\* build, lines 370-379: exec_commands(p.Build), one Run call per step, then
\* pop the name and mark the package built
BuildSelf ==
  /\ At("build", "self")
  /\ LET p == all_packs[Top.p]
         runs == Applicable(p.Build, GOOS)
     IN IF Top.k <= Len(runs)
        THEN /\ \E ok \in BOOLEAN :
                  /\ log' = Append(log, Ran("build", Top.p, p.Name, runs[Top.k].Cmd, "", FALSE,
                                            runs[Top.k].ci, 0, ok))
                  /\ IF NonZero(ok)
                     THEN Fatal(<<"Build aborted">>)
                     ELSE Continue(SetTop([Top EXCEPT !.k = @ + 1]))
             /\ UNCHANGED <<inprocess, all_packs>>
        ELSE /\ log' = log
             /\ inprocess' = SubSeq(inprocess, 1, Len(inprocess) - 1)
             /\ all_packs' = [all_packs EXCEPT ![Top.p].built = TRUE]
             /\ Continue(Pop)
  /\ UNCHANGED <<inputs, fs, cwd, calls>>

\* ------------------------------------------------------------------ inputs
Command(os, cmd) == [Os |-> os, Cmd |-> cmd]

\* one element of "depends" as written in a descriptor
Dep(name, branch, modules, fetchOnly, post) ==
  [Name |-> name, Git |-> "git@" \o name, Https |-> "", Branch |-> branch,
   Modules |-> modules, FetchOnly |-> fetchOnly, Post |-> post]

\* a descriptor file
Descriptor(name, branch, build, depends) ==
  [Name |-> name, Git |-> Unset, Https |-> Unset, Branch |-> branch, Build |-> build,
   Depends |-> depends, hasDepends |-> TRUE]

Repository(desc, hdr) == [hasDesc |-> TRUE, desc |-> desc, hdr |-> hdr]

Flags == [F |-> FALSE, f |-> FALSE, l |-> FALSE, b |-> "", proto |-> "git", uri |-> "",
          root_name |-> "A"]

\* The development tree in which directory n is "absent", "empty" (a bare
\* directory), "plain" (the package files without repository marker) or
\* "cloned".
Tree(rp, st) ==
  [q \in Paths |->
     LET n == q[1] IN
     IF q = <<"lib">> \/ st[n] = "absent" THEN None
     ELSE IF q = <<n>> THEN Dir
     ELSE IF st[n] = "empty" THEN None
     ELSE IF q = <<n, ".git">> THEN (IF st[n] = "cloned" THEN Dir ELSE None)
     ELSE IF q = <<n, descriptor_name>> THEN (IF rp[n].hasDesc THEN File ELSE None)
     ELSE IF q = <<n, "include">> THEN (IF rp[n].hdr # {} THEN Dir ELSE None)
     ELSE IF Len(q) = 3 /\ q[3] \in rp[n].hdr THEN Dir
     ELSE None]

\* the tree f with the entries of extra put in place
With(f, extra) == [q \in Paths |-> IF q \in DOMAIN extra THEN extra[q] ELSE f[q]]

OnlyRoot == [n \in Names |-> IF n = "A" THEN "cloned" ELSE "absent"]

\* The state in which main starts
Start(rp, fl, goos, f) ==
  /\ repo = rp
  /\ flag = fl
  /\ GOOS = goos
  /\ fs = f
  /\ cwd = <<>>
  /\ all_packs = <<>>
  /\ inprocess = <<>>
  /\ stack = <<Frame("main", "start", 0)>>
  /\ status = "run"
  /\ err = <<>>
  /\ log = <<>>
  /\ calls = <<>>
  /\ run = 1
  /\ prev = <<[fs |-> f, status |-> "start", err |-> <<>>, fetched |-> FALSE]>>

\* Graph family: every graph over Names with at most MaxDepends edges per
\* package and MaxEdges edges in all, each edge weak or not and followed by
\* one post command, each package with one build command; the root is
\* cloned already, the other packages are not.
InitGraph ==
  \E la, lb, lc \in 0..MaxDepends :
    /\ la + lb + lc <= MaxEdges
    /\ \E ea \in [1..la -> Names \X BOOLEAN], eb \in [1..lb -> Names \X BOOLEAN],
          ec \in [1..lc -> Names \X BOOLEAN] :
         LET es == [n \in Names |-> IF n = "A" THEN ea ELSE IF n = "B" THEN eb ELSE ec]
             deps == [n \in Names |->
                        [i \in 1..Len(es[n]) |->
                           Dep(es[n][i][1], "", <<>>, es[n][i][2],
                               <<Command(<<>>, "post")>>)]]
             tg(S) == S \cup UNION {{deps[n][i].Name : i \in 1..Len(deps[n])} : n \in S}
             rp == [n \in Names |->
                      Repository(Descriptor(n, Unset, <<Command(<<>>, "make")>>, deps[n]), {n})]
         IN /\ \A n \in Names : Len(deps[n]) > 0 => n \in tg(tg({"A"}))
            /\ Start(rp, Flags, linux, Tree(rp, OnlyRoot))

Make == <<Command(<<>>, "make")>>
NoDeps(name) == Repository(Descriptor(name, Unset, Make, <<>>), {name})

\* Branch family: package B is reached through an edge of A and an edge of
\* C, the root through a weak edge of C; the branches of the edges, of the
\* command line and of B's own descriptor vary, and so do -F and whether B is
\* cloned already.
InitBranch ==
  \E b1, b3 \in {"", "main", "dev"}, b4, fb \in {"", "main"}, dB \in {Unset, "dev"},
     F \in BOOLEAN, stB \in {"absent", "cloned"} :
    LET rp == [n \in Names |->
                 IF n = "A"
                 THEN Repository(Descriptor("A", Unset, Make,
                        <<Dep("B", b1, <<>>, FALSE, <<>>), Dep("C", "", <<>>, FALSE, <<>>)>>), {"A"})
                 ELSE IF n = "C"
                 THEN Repository(Descriptor("C", Unset, Make,
                        <<Dep("B", b3, <<>>, FALSE, <<>>), Dep("A", b4, <<>>, TRUE, <<>>)>>), {"C"})
                 ELSE Repository(Descriptor("B", dB, Make, <<>>), {"B"})]
    IN Start(rp, [Flags EXCEPT !.b = fb, !.F = F], linux,
             Tree(rp, [OnlyRoot EXCEPT !["B"] = stB]))

\* Name family: the name a descriptor declares need not be the name of the
\* directory (the name of the edge) it was fetched for, and B may have no
\* descriptor at all.
InitNames ==
  \E x, y, z \in Names, w \in BOOLEAN, nA \in {"A", "C"}, nB \in Names \cup {Unset},
     nC \in {"C", "B"} :
    LET rp == [n \in Names |->
                 IF n = "A"
                 THEN Repository(Descriptor(nA, Unset, Make,
                        <<Dep(x, "", <<>>, FALSE, <<>>), Dep(y, "", <<>>, FALSE, <<>>)>>), {"A"})
                 ELSE IF n = "B"
                 THEN [Repository(Descriptor(nB, Unset, Make, <<Dep(z, "", <<>>, w, <<>>)>>), {"B"})
                         EXCEPT !.hasDesc = nB # Unset]
                 ELSE Repository(Descriptor(nC, Unset, Make, <<>>), {"C"})]
    IN Start(rp, Flags, linux, Tree(rp, OnlyRoot))

\* Entries found at link names before the run
PreExisting ==
  { <<>>,
    <<"A", "include", "B">> :> File,
    <<"A", "include", "B">> :> Dir,
    <<"A", "include", "B">> :> Link(<<"B", "include", "B">>),
    <<"A", "include", "B">> :> Link(<<"C", "include", "C">>),
    (<<"A", "include", "B">> :> Link(<<"A", "include", "m">>))
       @@ (<<"A", "include", "m">> :> Link(<<"B", "include", "B">>)),
    <<"A", "include", "m">> :> Link(<<"B", "include", "m">>),
    <<"A", "include", "m">> :> Link(<<"C", "include", "m">>),
    <<"A", "lib">> :> Link(<<"lib">>),
    <<"A", "lib">> :> Dir,
    (<<"A", "lib">> :> Link(<<"B", "lib">>)) @@ (<<"lib">> :> Dir) }

\* Link family: the modules listed by the edges of A, the header folders that
\* B offers, whether B is there already and what is found at the link names.
\* B's descriptor has no "depends", C has no descriptor.
InitLinks ==
  \E m1 \in {<<>>, <<"m">>, <<"m", "B">>}, m2 \in {<<>>, <<"m">>},
     hB \in {{}, {"B"}, {"B", "m"}}, stB \in {"absent", "cloned"}, pre \in PreExisting :
    LET rp == [n \in Names |->
                 IF n = "A"
                 THEN Repository(Descriptor("A", Unset, Make,
                        <<Dep("B", "", m1, FALSE, <<>>), Dep("C", "", m2, FALSE, <<>>)>>), {"A"})
                 ELSE IF n = "B"
                 THEN Repository([Descriptor("B", Unset, Make, <<>>) EXCEPT !.hasDepends = FALSE], hB)
                 ELSE [Repository(Descriptor("C", Unset, <<>>, <<>>), {"C", "m"})
                         EXCEPT !.hasDesc = FALSE]]
    IN Start(rp, Flags, linux, With(Tree(rp, [OnlyRoot EXCEPT !["B"] = stB]), pre))

\* OS patterns of commands
OsPatterns ==
  { <<>>, any, linux, windows, windows \o Sp \o linux, Sp,
    linux \o Sp \o Sp \o any, <<"l", "i", "n">>, windows \o Sp \o any }

\* Command family: the OS patterns of the two build commands of A and of the
\* post command of its edge, and the OS the program runs on.
InitOs ==
  \E o1, o2 \in OsPatterns, o3 \in {<<>>, windows, linux \o Sp \o linux}, goos \in {linux, windows} :
    LET rp == [n \in Names |->
                 IF n = "A"
                 THEN Repository(Descriptor("A", Unset,
                        <<Command(o1, "c1"), Command(o2, "c2")>>,
                        <<Dep("B", "", <<>>, FALSE, <<Command(o3, "p1"), Command(<<>>, "p2")>>)>>),
                        {"A"})
                 ELSE NoDeps(n)]
    IN Start(rp, Flags, goos, Tree(rp, OnlyRoot))

\* Mode family: -f, -l, --uri, --proto and -b, the state of the three
\* directories and the locations given by the edge to B, on the chain
\* A -> B -> C.
InitModes ==
  \E f, l \in BOOLEAN, uri \in {"", "git@A"}, proto \in {"git", "https"}, fb \in {"", "main"},
     stA \in {"absent", "plain", "cloned"}, stB \in {"absent", "empty", "cloned"},
     stC \in {"absent", "cloned"}, gB \in {"", "git@B"}, hB \in {"", "https://B"} :
    LET rp == [n \in Names |->
                 IF n = "A"
                 THEN Repository(Descriptor("A", Unset, Make,
                        <<[Dep("B", "", <<>>, FALSE, <<>>) EXCEPT !.Git = gB, !.Https = hB]>>), {"A"})
                 ELSE IF n = "B"
                 THEN Repository(Descriptor("B", Unset, Make, <<Dep("C", "", <<>>, FALSE, <<>>)>>), {"B"})
                 ELSE NoDeps(n)]
    IN Start(rp, [Flags EXCEPT !.f = f, !.l = l, !.uri = uri, !.proto = proto, !.b = fb], linux,
             Tree(rp, [n \in Names |-> IF n = "A" THEN stA ELSE IF n = "B" THEN stB ELSE stC]))

\* the build phase has been entered: main called build(root)
InBuildPhase == Len(stack) >= 1 /\ stack[1].fn = "main" /\ stack[1].pc = "finish"
\* fetch_all(root) has returned
FetchComplete ==
  \/ status = "done"
  \/ InBuildPhase
  \/ Len(stack) = 1 /\ stack[1].pc = "build"

\* The process has ended and the program is started again with the same
\* command line on the development tree it left behind: the package-level
\* variables are those of a new process.
Rerun ==
  /\ status \in {"done", "fatal"}
  /\ run < MaxRuns
  /\ prev' = Append(prev, [fs |-> fs, status |-> status, err |-> err, fetched |-> FetchComplete])
  /\ run' = run + 1
  /\ cwd' = <<>>
  /\ all_packs' = <<>>
  /\ inprocess' = <<>>
  /\ stack' = <<Frame("main", "start", 0)>>
  /\ status' = "run"
  /\ err' = <<>>
  /\ UNCHANGED <<repo, flag, GOOS, fs, log, calls>>

\* Descriptor family: A, B, C with or without a descriptor file; A has an
\* edge to B (weak or not) and one to C, C has an edge to B and declares its
\* own name or the name B.
InitShadow ==
  \E nC \in {"C", "B"}, hasA, hasB, hasC, w \in BOOLEAN :
    LET rp == [n \in Names |->
                 IF n = "A"
                 THEN [Repository(Descriptor("A", Unset, Make,
                         <<Dep("B", "", <<>>, w, <<>>), Dep("C", "", <<>>, FALSE, <<>>)>>), {"A"})
                         EXCEPT !.hasDesc = hasA]
                 ELSE IF n = "B"
                 THEN [NoDeps("B") EXCEPT !.hasDesc = hasB]
                 ELSE [Repository(Descriptor(nC, Unset, Make, <<Dep("B", "", <<>>, FALSE, <<>>)>>), {"C"})
                         EXCEPT !.hasDesc = hasC]]
    IN Start(rp, Flags, linux, Tree(rp, OnlyRoot))

\* Cycle family: the graphs A -> A, A -> B -> A, A -> B -> C -> B and
\* A -> B -> C -> A, the closing edge weak or not, with and without -f.
InitCycle ==
  \E g \in 1..4, w, f \in BOOLEAN :
    LET last(to) == <<Dep(to, "", <<>>, w, <<>>)>>
        edge(to) == <<Dep(to, "", <<>>, FALSE, <<>>)>>
        depsA == IF g = 1 THEN last("A") ELSE edge("B")
        depsB == IF g = 1 THEN <<>> ELSE IF g = 2 THEN last("A") ELSE edge("C")
        depsC == IF g = 3 THEN last("B") ELSE IF g = 4 THEN last("A") ELSE <<>>
        rp == [n \in Names |->
                 Repository(Descriptor(n, Unset, Make,
                            IF n = "A" THEN depsA ELSE IF n = "B" THEN depsB ELSE depsC),
                            IF n = "A" THEN {} ELSE {n})]
    IN Start(rp, [Flags EXCEPT !.f = f], linux, Tree(rp, OnlyRoot))

Init ==
  \/ InitGraph \/ InitBranch \/ InitNames \/ InitLinks \/ InitOs \/ InitModes
  \/ InitShadow \/ InitCycle


Next ==
  \/ MainStart \/ MainLoad \/ MainBuild \/ MainFinish
  \/ FetchStat \/ GitClone \/ GitSwitch \/ GitPull
  \/ FetchAllEnter \/ FetchAllSetup \/ FetchAllDep \/ FetchAllBind
  \/ FetchAllInclude \/ FetchAllLink
  \/ BuildEnter \/ BuildDeps \/ BuildPost \/ BuildSelf

Spec == Init /\ [][Next]_vars

\* consecutive runs
NextRerun == Next \/ Rerun
SpecRerun == Init /\ [][NextRerun]_vars

\* ================================================================== claims
Packs == 1..Len(all_packs)
\* registry entries that q's edges of the build graph (fetchOnly = false) are
\* bound to; 0 stands for an edge that is not bound
StrongTargets(q) ==
  {all_packs[q].Depends[i].pack :
     i \in {j \in 1..Len(all_packs[q].Depends) : ~all_packs[q].Depends[j].FetchOnly}}

RECURSIVE StrongClosure(_, _)
StrongClosure(S, n) ==
  IF n = 0 THEN S
  ELSE StrongClosure(S \cup UNION {StrongTargets(q) : q \in S \ {0}}, n - 1)

\* entries reachable from q through one or more edges of the build graph
StrongReach(q) == StrongClosure(StrongTargets(q), Len(all_packs))

\* the build commands of entry q run so far in this run
BuildRuns(q) == {j \in 1..Len(log) : log[j].op = "build" /\ log[j].pk = q /\ log[j].run = run}

\* build(p) is about to execute the first of p's own build steps
StartsOwnBuild == At("build", "self") /\ Top.k = 1

\* C1: a package's own build steps are executed at most once in a run, and
\* when they start every package reachable from it through non-weak edges
\* is marked built already.
C1_BuildOnceAfterDeps ==
  StartsOwnBuild =>
    /\ BuildRuns(Top.p) = {}
    /\ \A q \in StrongReach(Top.p) : q # 0 /\ all_packs[q].built

\* C1 witness: the root starts its build steps after two other packages,
\* one of them requested by two edges and built once, have been built.
C1_Witness ==
  /\ StartsOwnBuild /\ Top.p = 1
  /\ Cardinality(StrongReach(1)) = 2
  /\ \E q \in StrongReach(1) :
       /\ Cardinality({j \in 1..Len(calls) : calls[j].fn = "build" /\ calls[j].p = q}) = 2
       /\ Cardinality(BuildRuns(q)) = 1


BuildCommands == {j \in 1..Len(log) : log[j].op \in {"build", "post"} /\ log[j].run = run}

\* The descriptors are those of the build graph A -> B -> A: one edge each,
\* both non-weak, and A is the root of a run that builds.
IsCycleAB ==
  /\ flag.root_name = "A" /\ ~flag.f
  /\ \A n \in {"A", "B"} : repo[n].hasDesc /\ repo[n].desc.Name = n
                           /\ Len(repo[n].desc.Depends) = 1
                           /\ ~repo[n].desc.Depends[1].FetchOnly
  /\ repo["A"].desc.Depends[1].Name = "B"
  /\ repo["B"].desc.Depends[1].Name = "A"

CycleErrorAB == <<"depends on itself", "A", <<"A", "B">>>>

\* C2: on the build graph A -> B -> A with root A the run never completes;
\* the build phase ends when build(A) is re-entered, with the cycle error
\* whose chain is the in-progress list <<A, B>>, and no build or post
\* command is ever executed.
C2_CycleABAborts ==
  IsCycleAB =>
    /\ status # "done"
    /\ BuildCommands = {}
    /\ inprocess \in {<<>>, <<"A">>, <<"A", "B">>}
    /\ (status = "fatal" /\ Top.fn = "build") =>
         /\ err = CycleErrorAB /\ inprocess = <<"A", "B">>
         /\ Top.pc = "enter" /\ Top.p = 1
    /\ (At("build", "enter") /\ Top.p = 1 /\ Len(stack) > 2) => inprocess = <<"A", "B">>

\* C2 witness: the run on A -> B -> A has ended with the cycle error
C2_Witness == IsCycleAB /\ status = "fatal" /\ err = CycleErrorAB /\ inprocess = <<"A", "B">>

\* the directory in which entry q was fetched: its name when fetch_all(q) started
FetchedIn(q) ==
  LET js == {j \in 1..Len(calls) : calls[j].fn = "fetch_all" /\ calls[j].p = q /\ calls[j].run = run}
  IN IF js = {} THEN "" ELSE calls[CHOOSE j \in js : TRUE].name

\* directory names for which fetch_all was entered in this run
FetchedDirs == {calls[j].name : j \in {i \in 1..Len(calls) : calls[i].fn = "fetch_all" /\ calls[i].run = run}}

\* the link found at lp stands for target
LinksTo(lp, target) ==
  /\ Lstat(fs, lp).k = "link"
  /\ fs[lp].t = target \/ SameFile(Stat(fs, lp), Stat(fs, target))

\* every Symlink call made for edge d leaves its link in directory dir
Linked(dir, d) ==
  LET jobs == LinkJobs(<<d>>, 1) IN
  \A j \in 1..Len(jobs) : LinksTo(<<dir, "include", jobs[j].link>>, jobs[j].target)

\* every descriptor declares the name of the directory it lies in
NamesMatch == \A n \in Names : repo[n].hasDesc => repo[n].desc.Name \in {n, Unset}

\* C3: once the fetch phase is over, the target of every fetchOnly edge of a
\* registered package has been fetched and is linked into the include
\* directory of the package, and the only packages that execute build steps
\* are the root and those reachable from it through edges that are not
\* fetchOnly.
C3_WeakFetchedLinkedNotBuilt ==
  /\ FetchComplete =>
       \A q \in Packs : \A i \in 1..Len(all_packs[q].Depends) :
         all_packs[q].Depends[i].FetchOnly =>
           /\ all_packs[q].Depends[i].Name \in FetchedDirs
           /\ Linked(FetchedIn(q), all_packs[q].Depends[i])
  /\ \A j \in BuildCommands :
       log[j].op = "build" => log[j].pk \in {1} \cup StrongReach(1)

\* C3 witness: the run is complete, the root has a fetchOnly edge to a package
\* that was cloned and linked and that no edge of the build graph leads to.
C3_Witness ==
  /\ status = "done" /\ ~flag.f
  /\ \E i \in 1..Len(all_packs[1].Depends) :
       LET d == all_packs[1].Depends[i] IN
       /\ d.FetchOnly /\ d.pack \notin {1} \cup StrongReach(1)
       /\ \E j \in 1..Len(log) : log[j].op = "clone" /\ log[j].pk = d.pack
       /\ Linked("A", d)
       /\ \A j \in BuildCommands : log[j].pk # d.pack

\* the edges <<package, index>> that fetch_all has bound to a registry entry
BoundEdges ==
  UNION {{<<q, i>> : i \in {j \in 1..Len(all_packs[q].Depends) : all_packs[q].Depends[j].pack # 0}} :
           q \in Packs}
EdgeOf(e) == all_packs[e[1]].Depends[e[2]]

\* no descriptor declares a branch of its own
NoDescriptorBranch == \A n \in Names : repo[n].desc.Branch = Unset

\* C4: two edges that name the same package and request different branches
\* are never both accepted by the traversal: the run has ended with the
\* branch-conflict error when the second one was reached, in the fetch phase
\* and before any build or post command.
C4_BranchConflictAborts ==
  /\ \A e1, e2 \in BoundEdges :
       EdgeOf(e1).Name = EdgeOf(e2).Name => EdgeOf(e1).Branch = EdgeOf(e2).Branch
  /\ (status = "fatal" /\ err[1] = "cannot switch branch") =>
       ~FetchComplete /\ BuildCommands = {}

\* C5: the registry never holds two entries with the same name.
C5_OnePackagePerName ==
  \A q1, q2 \in Packs : all_packs[q1].Name = all_packs[q2].Name => q1 = q2

\* C6: a command that failed is the last command of the run, and the run
\* has ended in the failed state: nothing is executed after a build, post or
\* git command that exits non-zero or does not start.
C6_FailFast ==
  \A j \in 1..Len(log) :
    (log[j].run = run /\ ~log[j].ok) => (j = Len(log) /\ status = "fatal")

\* C6 witness: the first of the two post commands of the root's edge has
\* failed after the dependency was built; the second post command and the
\* root's own build steps, which apply, were not run.
C6_Witness ==
  /\ status = "fatal" /\ Len(log) > 0
  /\ LET last == log[Len(log)] IN
       /\ last.op = "post" /\ ~last.ok /\ last.pk = 1 /\ last.ci = 1
       /\ Len(Applicable(all_packs[1].Depends[last.edge].Post, GOOS)) = 2
       /\ Len(Applicable(all_packs[1].Build, GOOS)) > 0
       /\ \E j \in 1..Len(log) : log[j].op = "build" /\ log[j].pk = all_packs[1].Depends[last.edge].pack

\* s[a..b] is a whitespace-separated token of the string s
IsTokenAt(s, a, b) ==
  /\ a <= b
  /\ \A k \in a..b : s[k] # " "
  /\ a = 1 \/ s[a - 1] = " "
  /\ b = Len(s) \/ s[b + 1] = " "

\* positions of the tokens of pattern s that equal "any" or the OS goos
TokenHits(s, goos) ==
  {ab \in (1..Len(s)) \X (1..Len(s)) :
     IsTokenAt(s, ab[1], ab[2]) /\ SubSeq(s, ab[1], ab[2]) \in {any, goos}}

\* number of times command c is to be run on goos
Hits(c, goos) == IF c.Os = <<>> THEN 1 ELSE Cardinality(TokenHits(c.Os, goos))

\* the pattern is empty, is "any", or has a token equal to the OS
SelectedAsStated(c, goos) ==
  \/ c.Os = <<>> \/ c.Os = any
  \/ \E ab \in (1..Len(c.Os)) \X (1..Len(c.Os)) :
       IsTokenAt(c.Os, ab[1], ab[2]) /\ SubSeq(c.Os, ab[1], ab[2]) = goos

\* the pattern is empty or has a token equal to "any" or to the OS
SelectedAmended(c, goos) == c.Os = <<>> \/ TokenHits(c.Os, goos) # {}

\* the build commands the root has run in this run, as indices into its list
RootBuildLog ==
  LET l == SelectSeq(log, LAMBDA e : e.op = "build" /\ e.pk = 1 /\ e.run = run)
  IN [j \in 1..Len(l) |-> l[j].ci]
\* the post commands run for the first edge of the root
RootPostLog ==
  LET l == SelectSeq(log, LAMBDA e : e.op = "post" /\ e.pk = 1 /\ e.edge = 1 /\ e.run = run)
  IN [j \in 1..Len(l) |-> l[j].ci]

Times(l, i) == Cardinality({j \in 1..Len(l) : l[j] = i})
InOrder(l) == \A j, k \in 1..Len(l) : j < k => l[j] <= l[k]

\* exec_commands(commands) has returned 0 having made the Run calls l
RanAsStated(commands, l) ==
  /\ InOrder(l)
  /\ \A i \in 1..Len(commands) :
       /\ Times(l, i) > 0 <=> SelectedAsStated(commands[i], GOOS)
       /\ Times(l, i) = Hits(commands[i], GOOS)

RanAmended(commands, l) ==
  /\ InOrder(l)
  /\ \A i \in 1..Len(commands) :
       /\ Times(l, i) > 0 <=> SelectedAmended(commands[i], GOOS)
       /\ Times(l, i) = Hits(commands[i], GOOS)

SymlinkErrors == {"cannot create symlink", "already exists and is not a symlink"}
\* the tree left by the first run, on which the second run started
AfterFirst == prev[2].fs
\* the second run is under way on the tree of a first run whose fetch phase
\* had completed
SecondAfterFetch == run = 2 /\ prev[2].fetched

\* C8: in a run started on the tree left by a run whose fetch phase had
\* completed, no clone is issued, no Symlink call fails, and every link of
\* that tree is left as it was.
C8_FetchIdempotent ==
  SecondAfterFetch =>
    /\ \A j \in 1..Len(log) : log[j].run = run => log[j].op # "clone"
    /\ status = "fatal" => err[1] \notin SymlinkErrors
    /\ \A lp \in Paths : AfterFirst[lp].k = "link" => fs[lp] = AfterFirst[lp]

\* every link of the tree left by the first run resolves to an entry
NoDanglingLink ==
  \A lp \in Paths : AfterFirst[lp].k = "link" => Stat(AfterFirst, lp) \notin {NoEnt, ELoop}

\* the tree on which the current run started
AtStart == prev[run].fs
\* fetch_all(q) has been entered and has returned
Fetched(q) ==
  /\ FetchedIn(q) # ""
  /\ \A h \in 1..Len(stack) : ~(stack[h].fn \in {"fetch_all", "fetch"} /\ stack[h].p = q)
\* the calls the edge d is to make: one per listed module, or one for the
\* whole package when no module is listed
EdgeLinks(d) ==
  IF Len(d.Modules) = 0
  THEN {[target |-> <<d.Name, "include", d.Name>>, link |-> d.Name]}
  ELSE {[target |-> <<d.Name, "include", d.Modules[m]>>, link |-> d.Modules[m]] :
          m \in 1..Len(d.Modules)}
ExpectedLinks(q) == UNION {EdgeLinks(all_packs[q].Depends[i]) : i \in 1..Len(all_packs[q].Depends)}
\* the names in dir/include at which this run has put a link
CreatedLinks(dir) ==
  {n \in LinkNames : LET lp == <<dir, "include", n>> IN fs[lp].k = "link" /\ fs[lp] # AtStart[lp]}

\* C9: the links a run creates in the include directory of a package are
\* only those of its edges, one include/<module> per listed module or one
\* include/<depName> when none is listed, each pointing at the folder of
\* that name in the include directory of the dependency; when the fetch of
\* the package has returned every one of these links is in place.
C9_ModuleScopedLinks ==
  \A q \in Packs :
    LET dir == FetchedIn(q) IN
    dir # "" =>
      /\ \A n \in CreatedLinks(dir) :
           \E q2 \in Packs : FetchedIn(q2) = dir /\
             \E e \in ExpectedLinks(q2) : e.link = n /\ fs[<<dir, "include", n>>].t = e.target
      /\ (Fetched(q) /\ ~all_packs[q].dnil) =>
           \A e \in ExpectedLinks(q) : LinksTo(<<dir, "include", e.link>>, e.target)

\* C9 witness: the fetch is complete; the root lists module m of B, which
\* offers B and m, and no module of C: include/m and include/C are links
\* created by the run and nothing is at include/B.
C9_Witness ==
  /\ FetchComplete /\ status # "fatal" /\ Len(all_packs) = 3
  /\ all_packs[1].Depends[1].Modules = <<"m">> /\ all_packs[1].Depends[1].Name = "B"
  /\ repo["B"].hdr = {"B", "m"}
  /\ fs[<<"A", "include", "m">>] = Link(<<"B", "include", "m">>)
  /\ fs[<<"A", "include", "C">>] = Link(<<"C", "include", "C">>)
  /\ fs[<<"A", "include", "B">>].k = "none"
  /\ CreatedLinks("A") = {"m", "C"}

\* the step is a call Symlink(job.target, job.link) in the working directory
SymlinkContract(job) ==
  LET lp == Join(cwd, job.link)
      there == Lstat(fs, lp)
      same == /\ there.k = "link"
              /\ Stat(fs, lp) \notin {NoEnt, ELoop}
              /\ Stat(fs, lp) = Stat(fs, job.target)
  IN /\ \A q \in Paths : q # lp => fs'[q] = fs[q]
     /\ IF there.k = "none"
        THEN fs'[lp] = Link(job.target) /\ status' = "run"
        ELSE /\ fs'[lp] = fs[lp]
             /\ same => status' = "run"
             /\ ~same => status' = "fatal" /\ err'[1] \in SymlinkErrors

\* C10: every Symlink call (the lib link and the links of the namespace
\* loop) creates the link when nothing is at the link name, accepts an
\* existing entry only when it is a link that resolves to the entity the
\* target resolves to, ends the run with a fatal error otherwise, and never
\* changes an entry that is there.
C10_SymlinkContract ==
  [][ /\ At("fetch_all", "setup") => SymlinkContract([target |-> <<"lib">>, link |-> "lib"])
      /\ (At("fetch_all", "links") /\ Top.k <= Len(LinkJobs(all_packs[Top.p].Depends, 1)))
           => SymlinkContract(LinkJobs(all_packs[Top.p].Depends, 1)[Top.k]) ]_vars

\* C10 witness: the run has ended on a link that points elsewhere, found at
\* the link name include/B of the root and left as it was, after the lib
\* link had been created.
C10_Witness ==
  /\ status = "fatal" /\ err = <<"already exists and is not a symlink">>
  /\ At("fetch_all", "links") = FALSE /\ Top.fn = "fetch_all" /\ Top.pc = "links" /\ Top.p = 1
  /\ fs[<<"A", "include", "B">>] = Link(<<"C", "include", "C">>)
  /\ AtStart[<<"A", "include", "B">>] = Link(<<"C", "include", "C">>)
  /\ fs[<<"A", "lib">>] = Link(<<"lib">>) /\ AtStart[<<"A", "lib">>].k = "none"

\* the command the step has run, when it has run one
RanNow == Len(log') = Len(log) + 1
Last == log'[Len(log')]
\* directory name holds repository metadata
HasGit(f, name) == Lstat(f, <<name>>).k = "dir" /\ Lstat(f, <<name, ".git">>).k = "dir"

\* C11: outside local-only mode, fetch of a package whose directory holds
\* repository metadata goes on to switch or pull and never clones; fetch of
\* a package whose directory is absent or holds no metadata goes on to the
\* clone (or ends the run when no location is known); every clone is issued
\* on a directory without metadata and carries the branch of the package,
\* every pull and switch is issued on a directory with metadata.
C11_FetchStateMachine ==
  [][ /\ At("fetch", "stat") =>
           LET name == all_packs[Top.p].Name IN
           IF HasGit(fs, name)
           THEN status' = "run" /\ stack'[Len(stack')].pc \in {"switch", "pull"}
           ELSE \/ status' = "run" /\ stack'[Len(stack')].pc = "clone"
                     /\ Lstat(fs', <<name>>).k = "dir"
                \/ status' = "fatal" /\ err' = <<"Missing package location.">>
      /\ (RanNow /\ Last.op = "clone") =>
           ~HasGit(fs, Last.name) /\ Last.branch = all_packs[Last.pk].Branch
      /\ (RanNow /\ Last.op \in {"pull", "switch"}) => HasGit(fs, Last.name) ]_vars

\* C11 witness: the root directory held the package files without metadata
\* and was cloned with the branch of the command line, then pulled; the
\* bare directory B was cloned.
C11_Witness ==
  /\ Len(log) >= 4 /\ run = 1
  /\ AtStart[<<"A">>].k = "dir" /\ AtStart[<<"A", ".git">>].k = "none"
  /\ AtStart[<<"B">>].k = "dir" /\ AtStart[<<"B", ".git">>].k = "none"
  /\ log[1].op = "clone" /\ log[1].name = "A" /\ log[1].branch = "main"
  /\ log[2].op = "switch" /\ log[3].op = "pull" /\ log[3].name = "A"
  /\ log[4].op = "clone" /\ log[4].name = "B" /\ log[4].ok

LocalOnlyError == <<"Fatal - local-only mode and directory does not exist">>
\* the fetch_all calls of this run
FetchCalls == {j \in 1..Len(calls) : calls[j].fn = "fetch_all" /\ calls[j].run = run}

\* C12: in local-only mode no clone, pull or switch is issued; a package
\* reached by the traversal whose directory does not exist ends the run with
\* the local-only error; for a package whose directory exists the lib link
\* is made, the descriptor is loaded, the edges are bound and their links
\* are in place once its fetch has returned.
C12_LocalOnly ==
  flag.l =>
    /\ \A j \in 1..Len(log) : log[j].op \notin {"clone", "pull", "switch"}
    /\ \A j \in FetchCalls :
         \/ IsDir(fs, <<calls[j].name>>)
         \/ /\ status = "fatal" /\ err = LocalOnlyError
            /\ j = Len(calls) /\ Top.fn = "fetch_all" /\ Top.p = calls[j].p
    /\ (status = "fatal" /\ err = LocalOnlyError) =>
         ~IsDir(fs, <<calls[Len(calls)].name>>)
    /\ \A q \in Packs :
         Fetched(q) =>
           LET dir == FetchedIn(q) IN
           /\ LinksTo(<<dir, "lib">>, <<"lib">>)
           /\ Readable(fs, <<dir, descriptor_name>>) =>
                /\ all_packs[q].Build = repo[dir].desc.Build
                /\ repo[dir].desc.hasDepends =>
                     /\ Len(all_packs[q].Depends) = Len(repo[dir].desc.Depends)
                     /\ \A i \in 1..Len(all_packs[q].Depends) :
                          /\ all_packs[q].Depends[i].Name = repo[dir].desc.Depends[i].Name
                          /\ all_packs[q].Depends[i].pack # 0
           /\ ~all_packs[q].dnil =>
                \A e \in ExpectedLinks(q) : LinksTo(<<dir, "include", e.link>>, e.target)

\* C12 witness: a local-only run over the existing directories A, B, C has
\* completed without any git command, with the links of A and B in place.
C12_Witness ==
  /\ flag.l /\ status = "done" /\ Len(all_packs) = 3
  /\ \A j \in 1..Len(log) : log[j].op \in {"build", "post"}
  /\ fs[<<"A", "include", "B">>] = Link(<<"B", "include", "B">>)
  /\ fs[<<"B", "include", "C">>] = Link(<<"C", "include", "C">>)
  /\ fs[<<"C", "lib">>] = Link(<<"lib">>)

\* the build calls of this run
BuildCalls == {j \in 1..Len(calls) : calls[j].fn = "build" /\ calls[j].run = run}

\* C13: with -f no build or post command is executed, build is never
\* called and no package is marked built, while a run that completes has
\* fetched every registered package, bound every edge and put every edge
\* link in place.
C13_FetchOnlySkipsBuild ==
  flag.f =>
    /\ BuildCommands = {}
    /\ BuildCalls = {}
    /\ \A q \in Packs : ~all_packs[q].built
    /\ status = "done" =>
         \A q \in Packs :
           /\ Fetched(q)
           /\ \A i \in 1..Len(all_packs[q].Depends) : all_packs[q].Depends[i].pack # 0
           /\ ~all_packs[q].dnil =>
                \A e \in ExpectedLinks(q) :
                  LinksTo(<<FetchedIn(q), "include", e.link>>, e.target)

\* C13 witness: a run with -f on the chain A -> B -> C has completed, B and
\* C were cloned and linked, nothing was built.
C13_Witness ==
  /\ flag.f /\ ~flag.l /\ status = "done" /\ Len(all_packs) = 3
  /\ \E j \in 1..Len(log) : log[j].op = "clone" /\ log[j].name = "C"
  /\ fs[<<"A", "include", "B">>] = Link(<<"B", "include", "B">>)
  /\ fs[<<"B", "include", "C">>] = Link(<<"C", "include", "C">>)
  /\ \A q \in Packs : ~all_packs[q].built

\* the location of package p for the protocol of the command line, and the
\* one for the other protocol
PreferredLocation(p) == IF flag.proto = "https" THEN p.Https ELSE p.Git
OtherLocation(p) == IF flag.proto = "https" THEN p.Git ELSE p.Https

\* C14: every clone is issued with the location of the preferred protocol
\* when it is set and with the other location otherwise; a fetch that needs
\* a clone of a package without any location ends the run with the
\* missing-location error and runs no command, and with a location it goes
\* on to the clone.
C14_CloneUri ==
  [][ /\ (RanNow /\ Last.op = "clone") =>
           LET p == all_packs[Last.pk] IN
           /\ Last.cmd # ""
           /\ Last.cmd = IF PreferredLocation(p) # "" THEN PreferredLocation(p)
                          ELSE OtherLocation(p)
      /\ (At("fetch", "stat") /\ ~HasGit(fs, all_packs[Top.p].Name)) =>
           LET p == all_packs[Top.p] IN
           IF PreferredLocation(p) = "" /\ OtherLocation(p) = ""
           THEN status' = "fatal" /\ err' = <<"Missing package location.">> /\ log' = log
           ELSE status' = "run" /\ stack'[Len(stack')].pc = "clone" ]_vars

\* C14 witness: with the git protocol preferred, B, whose edge gives only
\* an https location, has been cloned from that location.
C14_Witness ==
  /\ flag.proto = "git"
  /\ \E j \in 1..Len(log) :
       /\ log[j].op = "clone" /\ log[j].name = "B" /\ log[j].ok
       /\ log[j].cmd = "https://B"
       /\ all_packs[log[j].pk].Git = "" /\ all_packs[log[j].pk].Https = "https://B"

\* fetch_all(q) is past the load of the descriptor
Loaded(q) ==
  /\ FetchedIn(q) # ""
  /\ \A h \in 1..Len(stack) :
       (stack[h].fn \in {"fetch_all", "fetch"} /\ stack[h].p = q) =>
         stack[h].fn = "fetch_all" /\ stack[h].pc \notin {"enter", "setup"}
\* no descriptor file lies in the directory entry q was fetched in
LacksDescriptor(q) == Loaded(q) /\ ~Readable(fs, <<FetchedIn(q), descriptor_name>>)
\* build(q) has been called and every such call has returned
BuildReturned(q) ==
  /\ \E j \in BuildCalls : calls[j].p = q
  /\ \A h \in 1..Len(stack) : ~(stack[h].fn = "build" /\ stack[h].p = q)

\* C15, for the packages other than the root: a package without descriptor
\* file has no edges and no build steps, its fetch returns to the
\* referencer, no build command of it is run, its build never ends the run
\* and a build of it that has returned has marked it built.
C15_MissingDescriptorNoError ==
  \A q \in Packs \ {1} :
    LacksDescriptor(q) =>
      /\ Fetched(q)
      /\ all_packs[q].Depends = <<>> /\ all_packs[q].Build = <<>>
      /\ \A j \in BuildCommands : ~(log[j].op = "build" /\ log[j].pk = q)
      /\ status = "fatal" => ~(Top.fn = "build" /\ Top.p = q)
      /\ BuildReturned(q) => all_packs[q].built

\* C15 witness: B has no descriptor file; the run has completed, B was
\* cloned, C was fetched after it, and B is built without any command.
C15_Witness ==
  /\ status = "done" /\ Len(all_packs) = 3 /\ NamesMatch
  /\ all_packs[2].Name = "B" /\ LacksDescriptor(2) /\ all_packs[2].built
  /\ all_packs[3].Name = "C" /\ all_packs[3].built
  /\ \A j \in BuildCommands : log[j].pk # 2

\* entry q lies on a cycle of bound non-weak edges that the root reaches
OnBuildCycle(q) == q \in StrongReach(q) /\ q \in {1} \cup StrongReach(1)

\* C16 as stated: when the non-weak edges reachable from the root contain
\* a cycle the run never completes successfully, and no package on such a
\* cycle executes a build step of its own or becomes built.
C16_AsStated ==
  \A q \in Packs :
    OnBuildCycle(q) =>
      /\ status # "done"
      /\ ~all_packs[q].built
      /\ BuildRuns(q) = {}

\* C16 amended: the same for a run that includes the build phase (no -f).
C16_BuildCycleAborts ==
  \A q \in Packs :
    (OnBuildCycle(q) /\ ~flag.f) =>
      /\ status # "done"
      /\ ~all_packs[q].built
      /\ BuildRuns(q) = {}

\* C16 witness: on A -> B -> C -> B the run has ended with the cycle error
\* for B, which does not involve the root, before any build command.
C16_Witness ==
  /\ status = "fatal" /\ err = <<"depends on itself", "B", <<"A", "B", "C">>>>
  /\ OnBuildCycle(2) /\ OnBuildCycle(3) /\ ~OnBuildCycle(1)
  /\ BuildCommands = {}

\* the post commands run in this run for edge i of entry q, as indices into
\* the edge's list, and their positions in the log
PostRuns(q, i) ==
  LET l == SelectSeq(log, LAMBDA e : e.op = "post" /\ e.pk = q /\ e.edge = i /\ e.run = run)
  IN [j \in 1..Len(l) |-> l[j].ci]
PostAt(q, i) ==
  {j \in 1..Len(log) : log[j].op = "post" /\ log[j].pk = q /\ log[j].edge = i /\ log[j].run = run}
\* the commands of list commands that apply, as indices into the list
ApplicableIndices(commands) ==
  LET a == Applicable(commands, GOOS) IN [j \in 1..Len(a) |-> a[j].ci]

\* C17: a post command is only run for a non-weak edge whose target is
\* built; the post commands of one edge are run one after the other with no
\* other command in between, after those of the earlier edges of the package
\* and before those of the later ones and before the package's own build
\* steps; when the package is built every non-weak edge has had its post
\* steps run exactly once, also when its target was built through another
\* edge, and no fetchOnly edge has had any.
C17_PostStepsOncePerEdge ==
  \A q \in Packs : \A i \in 1..Len(all_packs[q].Depends) :
    LET d == all_packs[q].Depends[i] IN
    /\ PostAt(q, i) # {} =>
         /\ ~d.FetchOnly /\ d.pack # 0 /\ all_packs[d.pack].built
         /\ \A j, k \in PostAt(q, i) : \A m \in j..k : m \in PostAt(q, i)
         /\ \A i2 \in 1..Len(all_packs[q].Depends) : \A j \in PostAt(q, i), k \in PostAt(q, i2) :
              i < i2 => j < k
         /\ \A j \in PostAt(q, i), k \in BuildRuns(q) : j < k
         /\ \A j \in PostAt(q, i), k \in BuildRuns(d.pack) : k < j
    /\ all_packs[q].built =>
         PostRuns(q, i) = IF d.FetchOnly THEN <<>> ELSE ApplicableIndices(d.Post)

\* C17 witness: the run is complete; two packages have a non-weak edge to
\* the same target, which ran its build step once, and the post step of
\* each of the two edges was run once.
C17_Witness ==
  /\ status = "done"
  /\ \E q1, q2 \in Packs : \E i1 \in 1..Len(all_packs[q1].Depends), i2 \in 1..Len(all_packs[q2].Depends) :
       /\ q1 # q2
       /\ all_packs[q1].Depends[i1].pack = all_packs[q2].Depends[i2].pack
       /\ Cardinality(BuildRuns(all_packs[q1].Depends[i1].pack)) = 1
       /\ PostRuns(q1, i1) = <<1>> /\ PostRuns(q2, i2) = <<1>>

\* C18: fetch_all is entered at most once per package name in a run, the
\* package being registered under that name when it is entered, so that the
\* fetch recursion is bounded by the number of names.
C18_FetchOncePerName ==
  /\ \A j, k \in FetchCalls : calls[j].name = calls[k].name => j = k
  /\ \A j \in FetchCalls : calls[j].p \in Packs
  /\ Len(all_packs) <= Cardinality(Names)

\* C18 witness: on the cycle A -> B -> C -> A the fetch phase has ended
\* after three fetch_all calls.
C18_Witness ==
  /\ FetchComplete /\ status # "fatal" /\ NamesMatch
  /\ Cardinality(FetchCalls) = 3 /\ Len(all_packs) = 3
  /\ 1 \in StrongReach(1) /\ StrongReach(1) = {1, 2, 3}

\* registry entries that the bound edges of q, weak or not, lead to
AllTargets(q) ==
  {all_packs[q].Depends[i].pack : i \in 1..Len(all_packs[q].Depends)} \ {0}
RECURSIVE AllClosure(_, _)
AllClosure(S, n) ==
  IF n = 0 THEN S ELSE AllClosure(S \cup UNION {AllTargets(q) : q \in S}, n - 1)
AllReach(q) == AllClosure(AllTargets(q), Len(all_packs))
\* the registry has a dependency cycle, and every cycle has a fetchOnly edge
OnlyWeakCycles ==
  /\ \E q \in Packs : q \in AllReach(q)
  /\ \A q \in Packs : q \notin StrongReach(q)

\* C19: after the fetch phase of a graph with a cycle, all of whose cycles
\* hold a fetchOnly edge, the run never ends with the cycle error, and it
\* ends in the failed state only when the last command run has failed.
C19_WeakCycleNotReported ==
  (FetchComplete /\ OnlyWeakCycles /\ status = "fatal") =>
    /\ err[1] # "depends on itself"
    /\ Len(log) > 0 /\ ~log[Len(log)].ok

\* C19 witness: A -> B non-weak and B -> A fetchOnly: the run has completed
\* and both packages are built.
C19_Witness ==
  /\ status = "done" /\ ~flag.f /\ NamesMatch /\ OnlyWeakCycles
  /\ Len(all_packs) = 2 /\ all_packs[1].built /\ all_packs[2].built
  /\ all_packs[1].Depends[1].pack = 2 /\ ~all_packs[1].Depends[1].FetchOnly
  /\ all_packs[2].Depends[1].pack = 1 /\ all_packs[2].Depends[1].FetchOnly

\* the entries whose build is executing, from the root down: the build
\* calls on the call stack that have pushed their name
BuildChain ==
  LET fr == SelectSeq(stack, LAMBDA f : f.fn = "build" /\ f.pc # "enter")
  IN [h \in 1..Len(fr) |-> fr[h].p]
ChainNames == [h \in 1..Len(BuildChain) |-> all_packs[BuildChain[h]].Name]
NoRepeat(l) == \A j, k \in 1..Len(l) : l[j] = l[k] => j = k

\* C20: the in-progress list holds no name twice, it is the list of the
\* names of the packages whose build is executing, from the root down (a
\* name is on it from before the recursion into the dependencies until the
\* package's own build steps have succeeded), and no registered package
\* whose name is on it is marked built.
C20_InProgressStack ==
  /\ NoRepeat(inprocess)
  /\ inprocess = ChainNames
  /\ Len(BuildChain) > 0 => BuildChain[1] = 1
  /\ \A q \in Packs : (\E w \in 1..Len(inprocess) : inprocess[w] = all_packs[q].Name) =>
       ~all_packs[q].built

\* the same with the last part read per entry: no package whose build is
\* executing is marked built
C20_PerEntry ==
  /\ NoRepeat(inprocess)
  /\ inprocess = ChainNames
  /\ Len(BuildChain) > 0 => BuildChain[1] = 1
  /\ \A h \in 1..Len(BuildChain) : ~all_packs[BuildChain[h]].built

\* C20 witness: the build of C, called from B, called from the root, runs
\* its build step with the three names on the list.
C20_Witness ==
  /\ At("build", "self") /\ NamesMatch
  /\ inprocess = <<"A", "B", "C">> /\ BuildChain = <<1, 2, 3>>

\* the git commands of this run
GitCommands == {j \in 1..Len(log) : log[j].op \in {"clone", "pull", "switch"} /\ log[j].run = run}

\* C21: once build has been called or a build or post command has been
\* run, the fetch phase is over: every registered package has been fetched
\* by its one fetch_all call, which has returned, its descriptor is loaded,
\* its edges are bound and linked, and every git command of the run comes
\* before every build or post command.
C21_PhasesDoNotInterleave ==
  (BuildCommands # {} \/ BuildCalls # {}) =>
    /\ FetchComplete
    /\ Cardinality(FetchCalls) = Len(all_packs)
    /\ \A q \in Packs :
         /\ Fetched(q) /\ Loaded(q)
         /\ \A i \in 1..Len(all_packs[q].Depends) : all_packs[q].Depends[i].pack \in Packs
         /\ ~all_packs[q].dnil =>
              \A e \in ExpectedLinks(q) : LinksTo(<<FetchedIn(q), "include", e.link>>, e.target)
    /\ \A j \in GitCommands, k \in BuildCommands : j < k
    /\ \A h \in 1..Len(stack) : stack[h].fn \in {"main", "build"}

\* C21 witness: the first build command has been run, after B and C were
\* cloned and linked.
C21_Witness ==
  /\ Cardinality(BuildCommands) = 1 /\ Len(all_packs) = 3 /\ status = "run"
  /\ Cardinality({j \in GitCommands : log[j].op = "clone"}) = 2
  /\ log[Len(log)].op = "build"

\* the build commands (own build steps) of this run
OwnBuildCommands == {j \in BuildCommands : log[j].op = "build"}

\* C22: every build step of a package is run with the working directory
\* equal to the directory <devroot>/<name of the package>.
C22_BuildInOwnDirectory ==
  \A j \in OwnBuildCommands : log[j].cwd = <<log[j].name>>

\* C22 witness: the root runs its build step in its directory after B was
\* built in B and C in C.
C22_Witness ==
  /\ NamesMatch /\ Cardinality(OwnBuildCommands) = 3
  /\ \E j1, j2, j3 \in OwnBuildCommands :
       /\ j1 < j2 /\ j2 < j3
       /\ log[j1].cwd = <<"C">> /\ log[j2].cwd = <<"B">>
       /\ log[j3].cwd = <<"A">> /\ log[j3].pk = 1

\* C23: from the first call of build on, every edge of every registered
\* package is bound to a registry entry, and that entry carries the name
\* the edge gives.
C23_EdgesBoundByName ==
  BuildCalls # {} =>
    \A q \in Packs : \A i \in 1..Len(all_packs[q].Depends) :
      LET d == all_packs[q].Depends[i] IN
      d.pack \in Packs /\ all_packs[d.pack].Name = d.Name

\* C23 witness: build(root) has been entered on a registry of three
\* packages in which two edges are bound to the same entry.
C23_Witness ==
  /\ NamesMatch /\ Cardinality(BuildCalls) = 1 /\ Len(all_packs) = 3
  /\ \E e1, e2 \in BoundEdges : e1 # e2 /\ EdgeOf(e1).pack = EdgeOf(e2).pack
  /\ \A e \in BoundEdges : all_packs[EdgeOf(e).pack].Name = EdgeOf(e).Name

\* the traversal is about to look up the current edge in the registry
AtEdge == At("fetch_all", "deps") /\ Top.i <= Len(all_packs[Top.p].Depends)
Sentinel(b) == IF b = "" THEN "HEAD" ELSE b

\* C24: when the current edge names a registered package and exactly one of
\* the edge's branch and the package's branch is unspecified, the step ends
\* the run with the branch-conflict error, which carries the package name and
\* both branches with HEAD for the unspecified one, and binds nothing; the
\* step binds the edge to the registered package without an error only when
\* the two branches are equal.
C24_BranchConflictOnFound ==
  [][ (AtEdge /\ Find(all_packs, all_packs[Top.p].Depends[Top.i].Name) # 0) =>
        LET e == all_packs[Top.p].Depends[Top.i]
            idx == Find(all_packs, e.Name)
            v == all_packs[idx]
        IN /\ ((e.Branch = "") # (v.Branch = "")) =>
                /\ status' = "fatal" /\ all_packs' = all_packs
                /\ err' = <<"cannot switch branch", v.Name, Sentinel(v.Branch), Sentinel(e.Branch)>>
                /\ "HEAD" \in {err'[3], err'[4]}
           /\ status' = "run" =>
                /\ e.Branch = v.Branch
                /\ all_packs' = [all_packs EXCEPT ![Top.p].Depends[Top.i].pack = idx] ]_vars

\* C24 witness: the edge of C to B asked for no branch while B was
\* registered with branch dev, and the run ended with the error naming dev
\* and HEAD.
C24_Witness ==
  /\ status = "fatal" /\ err = <<"cannot switch branch", "B", "dev", "HEAD">>
  /\ Top.fn = "fetch_all" /\ all_packs[Top.p].Name = "C"
  /\ all_packs[Top.p].Depends[Top.i].Branch = ""
  /\ all_packs[Find(all_packs, "B")].Branch = "dev"

\* one step keeps the branch of every registered package, records the
\* branch option for the root and the edge's branch for a package it
\* registers, and accepts an edge that asks for the recorded branch
BranchKept ==
  /\ (At("main", "start") /\ status' = "run") => all_packs'[1].Branch = flag.b
  /\ \A q \in Packs : all_packs'[q].Branch = all_packs[q].Branch
  /\ AtEdge =>
       LET e == all_packs[Top.p].Depends[Top.i]
           idx == Find(all_packs, e.Name)
       IN /\ Len(all_packs') > Len(all_packs) => all_packs'[Len(all_packs')].Branch = e.Branch
          /\ (idx # 0 /\ e.Branch = all_packs[idx].Branch) => status' = "run"

\* C25: the branch recorded for a registered package is the branch of the
\* edge that registered it (the branch option for the root) and never
\* changes afterwards, whatever the descriptor of the package declares, so
\* an edge asking for that branch is accepted.
C25_BranchIsCreatorsBranch == [][BranchKept]_vars

\* C25 witness: no descriptor declares a branch, B was registered for A's
\* edge with branch dev and C's edge to B with branch dev was bound to it.
C25_Witness ==
  /\ NoDescriptorBranch /\ status = "run"
  /\ \E e1, e2 \in BoundEdges :
       /\ e1 # e2 /\ EdgeOf(e1).pack = EdgeOf(e2).pack
       /\ EdgeOf(e1).Name = "B" /\ EdgeOf(e2).Name = "B"
       /\ EdgeOf(e1).Branch = "dev" /\ EdgeOf(e2).Branch = "dev"
       /\ all_packs[EdgeOf(e1).pack].Branch = "dev"

\* C26: every pull and every switch carries the branch of its package and
\* is issued in a directory with repository metadata; a pull with a branch
\* directly follows a switch of the same package to that branch which
\* exited with status zero; a pull without a branch does not follow a
\* switch; a switch carries the force option exactly when -F is set and is
\* followed by nothing but the pull of the same package, and by nothing at
\* all when it failed.
C26_SwitchThenPull ==
  [][ RanNow =>
        LET n == Len(log)
            after_switch == n > 0 /\ log[n].op = "switch" /\ log[n].run = run
        IN /\ Last.op \in {"pull", "switch"} =>
                Last.branch = all_packs[Last.pk].Branch /\ HasGit(fs, Last.name)
           /\ Last.op = "pull" =>
                IF Last.branch # ""
                THEN /\ after_switch /\ log[n].ok /\ log[n].pk = Last.pk
                     /\ log[n].branch = Last.branch /\ log[n].cwd = Last.cwd
                ELSE ~after_switch
           /\ Last.op = "switch" => Last.branch # "" /\ Last.force = flag.F
           /\ after_switch => log[n].ok /\ Last.op = "pull" /\ Last.pk = log[n].pk ]_vars

\* C26 witness: with -F, the cloned package B bound to branch dev was
\* switched with the force option and then pulled, after the root, bound to
\* no branch, was only pulled.
C26_Witness ==
  /\ flag.F /\ Len(log) >= 3
  /\ log[1].op = "pull" /\ log[1].name = "A" /\ log[1].branch = ""
  /\ log[2].op = "switch" /\ log[2].name = "B" /\ log[2].branch = "dev"
  /\ log[2].force /\ log[2].ok
  /\ log[3].op = "pull" /\ log[3].name = "B" /\ log[3].branch = "dev" /\ log[3].ok

\* the tree on which the first run started held nothing at a link name
CleanStart ==
  \A lp \in Paths : (Len(lp) = 3 \/ (Len(lp) = 2 /\ lp[2] = "lib")) => prev[1].fs[lp].k = "none"
\* the second run is under way on the tree of a first run that aborted
SecondAfterAbort == run = 2 /\ prev[2].status = "fatal" /\ CleanStart
\* the commands of this run
CommandsNow == {j \in 1..Len(log) : log[j].run = run}

\* C27: a run started on the tree left by an aborted run does not end with
\* an error of Symlink; it clones exactly into the directories that tree
\* held without repository metadata and pulls the repositories that tree
\* held.
C27_RerunAfterAbort ==
  SecondAfterAbort =>
    /\ status = "fatal" => err[1] \notin SymlinkErrors
    /\ \A j \in CommandsNow :
         /\ log[j].op = "clone" => ~HasGit(AfterFirst, log[j].name)
         /\ log[j].op \in {"pull", "switch"} =>
              \/ HasGit(AfterFirst, log[j].name)
              \/ \E k \in CommandsNow : k < j /\ log[k].op = "clone" /\ log[k].name = log[j].name

\* C27 witness: the first run aborted when a clone failed, leaving a
\* directory without metadata, a repository of a dependency and links that
\* all resolve; the second run pulled the repository, cloned into the
\* directory, left the links as they were and completed.
C27_Witness ==
  /\ SecondAfterAbort /\ NoDanglingLink /\ status = "done"
  /\ prev[2].err = <<"Cloning failed">>
  /\ \E lp \in Paths : AfterFirst[lp].k = "link" /\ fs[lp] = AfterFirst[lp]
  /\ \E j, k \in CommandsNow :
       /\ log[j].op = "pull" /\ log[j].pk # 1 /\ HasGit(AfterFirst, log[j].name)
       /\ log[k].op = "clone" /\ AfterFirst[<<log[k].name>>].k = "dir"
       /\ ~HasGit(AfterFirst, log[k].name)

\* Depth-first walk of the build graph (edges with fetchOnly = false, in
\* declaration order) from entry q; st.seen holds the entries entered,
\* st.order the entries left, in the order they were left.
RECURSIVE Visit(_, _), VisitEdges(_, _, _)
Visit(q, st) ==
  IF q \in st.seen THEN st
  ELSE LET s1 == VisitEdges(q, 1, [st EXCEPT !.seen = @ \cup {q}])
       IN [s1 EXCEPT !.order = Append(@, q)]
VisitEdges(q, i, st) ==
  IF i > Len(all_packs[q].Depends) THEN st
  ELSE LET d == all_packs[q].Depends[i]
       IN VisitEdges(q, i + 1, IF d.FetchOnly \/ d.pack = 0 THEN st ELSE Visit(d.pack, st))
PostOrder == Visit(1, [order |-> <<>>, seen |-> {}]).order
\* the entries of the post-order that have a build step to run on this OS
ExpectedBuilders == SelectSeq(PostOrder, LAMBDA q : Len(Applicable(all_packs[q].Build, GOOS)) > 0)
\* the entries whose build steps have run in this run, in the order in which
\* their steps began
RECURSIVE Squash(_)
Squash(l) ==
  IF Len(l) <= 1 THEN l
  ELSE IF l[1] = l[2] THEN Squash(Tail(l))
  ELSE <<l[1]>> \o Squash(Tail(l))
Builders ==
  LET own == SelectSeq(log, LAMBDA e : e.op = "build" /\ e.run = run)
  IN Squash([j \in 1..Len(own) |-> own[j].pk])
IsPrefix(a, b) == Len(a) <= Len(b) /\ \A j \in 1..Len(a) : a[j] = b[j]

\* C28: the packages run their own build steps in the depth-first
\* post-order of the graph of non-weak edges from the root, edges taken in
\* declaration order and packages already built skipped: at any moment of
\* the build phase the packages that have run build steps are a prefix of
\* that order, in a run that completes they are the whole of it, and the
\* last build or post command of such a run is a build step of the root
\* when the root has one.
C28_BuildPostOrder ==
  (BuildCalls # {} /\ ~flag.f) =>
    /\ IsPrefix(Builders, ExpectedBuilders)
    /\ status = "done" =>
         /\ Builders = ExpectedBuilders
         /\ PostOrder # <<>> /\ PostOrder[Len(PostOrder)] = 1
         /\ Len(Applicable(all_packs[1].Build, GOOS)) > 0 =>
              \A j \in BuildCommands :
                (\A k \in BuildCommands : k <= j) => log[j].op = "build" /\ log[j].pk = 1

\* C28 witness: the root lists B before C, B depends on C; the run has
\* completed and the build steps ran for C, then B, then the root, C being
\* skipped when the root's second edge reached it.
C28_Witness ==
  /\ status = "done" /\ Builders = <<3, 2, 1>>
  /\ Len(all_packs[1].Depends) = 2
  /\ all_packs[1].Depends[1].pack = 2 /\ all_packs[1].Depends[2].pack = 3
  /\ 3 \in StrongTargets(2) /\ 3 \in StrongTargets(1)

\* the registry entries marked built
BuiltSet == {q \in Packs : all_packs[q].built}

\* C29: when a run with a build phase has completed, the in-progress stack
\* is empty and the entries marked built are the root and the entries
\* reachable from it through non-weak edges, and no others.
C29_BuiltSetOnSuccess ==
  (status = "done" /\ ~flag.f) =>
    /\ inprocess = <<>>
    /\ BuiltSet = {1} \cup StrongReach(1)

\* C29 witness: a completed run in which a registered package is reached
\* through a fetchOnly edge only and is not marked built, while the root
\* and another package are.
C29_Witness ==
  /\ status = "done" /\ ~flag.f /\ Len(all_packs) = 3
  /\ Cardinality(BuiltSet) = 2
  /\ \E q \in Packs \ BuiltSet : q \in AllReach(1) /\ Fetched(q)

\* the post commands of this run
PostCommands == {j \in BuildCommands : log[j].op = "post"}
\* the entry that the edge of post command j is bound to
PostTarget(j) == all_packs[log[j].pk].Depends[log[j].edge].pack
\* the number of calls of build on entry q in this run
BuildCallsOf(q) == Cardinality({j \in BuildCalls : calls[j].p = q})

\* C30: every post command of an edge is run in the directory of the
\* package the edge is bound to, whether that package was built by the call
\* made for this edge or had been built before.
C30_PostInTargetDirectory ==
  \A j \in PostCommands : log[j].cwd = <<all_packs[PostTarget(j)].Name>>

\* the same for the post commands of an edge whose call built the target
C30_AfterOwnBuild ==
  \A j \in PostCommands :
    (NamesMatch /\ BuildCallsOf(PostTarget(j)) = 1) => log[j].cwd = <<all_packs[PostTarget(j)].Name>>

\* C30 witness: the post command of an edge ran in the directory of its
\* target, which the call made for that edge had built after building a
\* dependency of its own.
C30_Witness ==
  /\ NamesMatch
  /\ \E j \in PostCommands :
       /\ BuildCallsOf(PostTarget(j)) = 1
       /\ log[j].cwd = <<all_packs[PostTarget(j)].Name>>
       /\ StrongTargets(PostTarget(j)) # {}
       /\ j > 1 /\ log[j - 1].op = "build" /\ log[j - 1].pk = PostTarget(j)

====
